---- MODULE Spec2Model ----
(***************************************************************************)
(* Verification model of community_ext (Louvain-style community detection  *)
(* generalised over several objectives).                                    *)
(*                                                                          *)
(* Modelled: Status (community_status.py), generate_dendrogram,            *)
(* __one_level, __remove, __insert, __neighcom, __modularity, __renumber,   *)
(* __transit, induced_graph, partition_at_level, compare_partitions.        *)
(*                                                                          *)
(* Arithmetic.  The program computes in floating point.  Every quantity of  *)
(* the 'dcppm' and 'ppm' models is a rational polynomial in                 *)
(* eps = __MIN = 1e-7 (the default parameter is 1 - eps, an empty P2in is   *)
(* clamped to eps).  A number is modelled exactly as a triple               *)
(* [a, b, c] = a + b*eps + c*eps^2 over an integer scale that is stated     *)
(* with each operator; comparisons evaluate eps = 1/EpsDen exactly.         *)
(* The models 'ilfr' and 'ilfrs' need logarithms and are not modelled.      *)
(*                                                                          *)
(* Iteration order.  With randomize off, graph.nodes() and dict.items()     *)
(* iterate small integer keys in ascending order (CPython 2 dict of small   *)
(* ints); with randomize on, any order is possible.                         *)
(***************************************************************************)
EXTENDS Integers, Sequences, FiniteSets, TLC

\* ---------------------------------------------------------------- bounds
\* the input graphs have at most MaxNodes vertices and total edge weight
\* (graph.size(weight)) at most MaxSize
MaxNodes == 3
MaxSize == 3

\* __MIN = 0.0000001 = 1 / EpsDen
EpsDen == 10000000
\* __PASS_MAX = -1
PASS_MAX == -1

\* ------------------------------------------------------- generic helpers
RECURSIVE SumOver(_, _)
SumOver(S, f) ==
  IF S = {} THEN 0
  ELSE LET x == CHOOSE y \in S : TRUE IN f[x] + SumOver(S \ {x}, f)

Min(S) == CHOOSE x \in S : \A y \in S : x <= y

Range(f) == {f[x] : x \in DOMAIN f}

\* dict.get(k, default)
Get(d, k, default) == IF k \in DOMAIN d THEN d[k] ELSE default

\* d[k] = v
Put(d, k, v) == [x \in (DOMAIN d) \cup {k} |-> IF x = k THEN v ELSE d[x]]

EmptyDict == [x \in {} |-> 0]

\* Optional arguments (None / a value)
None == [some |-> FALSE, val |-> EmptyDict]
Some(x) == [some |-> TRUE, val |-> x]

\* ------------------------------------------------------------- the graph
\* An undirected networkx Graph: nodes, and a weight for every edge <<u, v>>
\* with u <= v (a self-loop is <<v, v>>).
EdgeKey(u, v) == IF u <= v THEN <<u, v>> ELSE <<v, u>>

NoGraph == [nodes |-> {}, w |-> [e \in {} |-> 0]]

\* graph.get_edge_data(u, v, default={weight: 0}).get(weight, 1)
EdgeWeight(g, u, v) == Get(g.w, EdgeKey(u, v), 0)

\* graph[node]: the neighbours of node (node itself when it has a self-loop)
Adj(g, v) == {u \in g.nodes : EdgeKey(u, v) \in DOMAIN g.w}

\* graph.degree(node, weight): a self-loop counts twice
Degree(g, v) ==
  SumOver(Adj(g, v), [u \in Adj(g, v) |->
            IF u = v THEN 2 * g.w[EdgeKey(u, v)] ELSE g.w[EdgeKey(u, v)]])

\* graph.size(weight): every edge once
Size(g) == SumOver(DOMAIN g.w, g.w)

\* graph.number_of_edges()
NumberOfEdges(g) == Cardinality(DOMAIN g.w)

\* ---------------------------------------------------------------- Status
\* self.d[k[x]] = self.d.get(k[x], 0) + a[x], for every x of S
RECURSIVE AddAll(_, _, _, _)
AddAll(d, S, k, a) ==
  IF S = {} THEN d
  ELSE LET x == CHOOSE y \in S : TRUE
       IN AddAll(Put(d, k[x], Get(d, k[x], 0) + a[x]), S \ {x}, k, a)

\* Status.__init__
StatusNew ==
  [node2com |-> EmptyDict, total_weight |-> 0, degrees |-> EmptyDict,
   gdegrees |-> EmptyDict, internals |-> EmptyDict, loops |-> EmptyDict,
   rawnode2node |-> EmptyDict, rawnode2degree |-> EmptyDict,
   com2size |-> EmptyDict, node2size |-> EmptyDict]

\* position of node in sorted(graph.nodes())
Rank(S, x) == Cardinality({y \in S : y < x})

\* Status.init, branch "part is None": node2com, degrees, gdegrees, loops, internals
InitDefault(self, graph) ==
  LET nodes == graph.nodes
      n2c == [n \in nodes |-> Rank(nodes, n)]
      gdeg == [n \in nodes |-> Degree(graph, n)]
      lp == [n \in (DOMAIN self.loops) \cup nodes |->
               IF n \in nodes THEN EdgeWeight(graph, n, n) ELSE self.loops[n]]
  IN [ok |-> \A n \in nodes : gdeg[n] >= 0,
      node2com |-> n2c,
      degrees |-> AddAll(EmptyDict, nodes, n2c, gdeg),
      gdegrees |-> gdeg,
      loops |-> lp,
      internals |-> AddAll(EmptyDict, nodes, n2c, [n \in nodes |-> lp[n]])]

\* Status.init, branch "part is not None"; inc is accumulated in halves,
\* modelled doubled and halved at the end (the total is an integer)
InitPart(self, graph, part) ==
  LET nodes == graph.nodes
      gdeg == [n \in nodes |-> Degree(graph, n)]
      inc2 == [n \in nodes |->
                LET same == {m \in Adj(graph, n) : part[m] = part[n]}
                IN SumOver(same, [m \in same |->
                     IF m = n THEN 2 * graph.w[EdgeKey(n, m)]
                     ELSE graph.w[EdgeKey(n, m)]])]
      int2 == AddAll(EmptyDict, nodes, part, inc2)
  IN [ok |-> \A e \in DOMAIN graph.w : graph.w[e] > 0,
      node2com |-> [n \in nodes |-> part[n]],
      degrees |-> AddAll(EmptyDict, nodes, part, gdeg),
      gdegrees |-> gdeg,
      loops |-> self.loops,
      internals |-> [c \in DOMAIN int2 |-> int2[c] \div 2]]

\* Status.init(graph, weight, part, raw_partition, raw_graph)
StatusInit(self, graph, part, raw_partition, raw_graph) ==
  LET b == IF part.some THEN InitPart(self, graph, part.val)
           ELSE InitDefault(self, graph)
      r2n == IF raw_partition.some THEN raw_partition.val
             ELSE [n \in graph.nodes |-> n]
      raws == DOMAIN r2n
      coms == Range(b.node2com)
      ones == [r \in raws |-> 1]
      rg == IF raw_graph.some THEN raw_graph.val ELSE graph
      edges == DOMAIN rg.w
      one == [e \in edges |-> 1]
      rd1 == AddAll(EmptyDict, edges, [e \in edges |-> e[1]], one)
  IN [ok |-> b.ok,
      st |-> [node2com |-> b.node2com,
              total_weight |-> Size(graph),
              degrees |-> b.degrees,
              gdegrees |-> b.gdegrees,
              internals |-> b.internals,
              loops |-> b.loops,
              rawnode2node |-> r2n,
              rawnode2degree |-> AddAll(rd1, edges, [e \in edges |-> e[2]], one),
              com2size |-> AddAll([c \in coms |-> 0], raws,
                                  [r \in raws |-> b.node2com[r2n[r]]], ones),
              node2size |-> AddAll(EmptyDict, raws, r2n, ones)]]

\* __remove that does not park the degree of node in the sentinel -1
RemoveNoPark(node, com, weight, status) ==
  LET g == Get(status.gdegrees, node, 0)
      l == Get(status.loops, node, 0)
      d1 == Put(status.degrees, com, Get(status.degrees, com, 0) - g)
      i1 == Put(status.internals, com, Get(status.internals, com, 0) - weight - l)
  IN [status EXCEPT !.degrees = d1,
                    !.internals = Put(i1, -1, l),
                    !.node2com = Put(status.node2com, node, -1),
                    !.com2size = Put(status.com2size, com,
                                     status.com2size[com] - status.node2size[node])]

\* __remove(node, com, weight, status)
Remove(node, com, weight, status) ==
  LET g == Get(status.gdegrees, node, 0)
      l == Get(status.loops, node, 0)
      d1 == Put(status.degrees, com, Get(status.degrees, com, 0) - g)
      d2 == Put(d1, -1, Get(d1, -1, 0) + g)
      i1 == Put(status.internals, com, Get(status.internals, com, 0) - weight - l)
  IN [status EXCEPT !.degrees = d2,
                    !.internals = Put(i1, -1, l),
                    !.node2com = Put(status.node2com, node, -1),
                    !.com2size = Put(status.com2size, com,
                                     status.com2size[com] - status.node2size[node])]

\* __insert that leaves com2size alone
InsertNoSize(node, com, weight, status) ==
  LET g == Get(status.gdegrees, node, 0)
      l == Get(status.loops, node, 0)
      d1 == Put(status.degrees, -1, Get(status.degrees, -1, 0) - g)
      d2 == Put(d1, com, Get(d1, com, 0) + g)
  IN [status EXCEPT !.node2com = Put(status.node2com, node, com),
                    !.degrees = d2,
                    !.internals = Put(status.internals, com,
                                      Get(status.internals, com, 0) + weight + l)]

\* __insert(node, com, weight, status)
Insert(node, com, weight, status) ==
  LET g == Get(status.gdegrees, node, 0)
      l == Get(status.loops, node, 0)
      d1 == Put(status.degrees, -1, Get(status.degrees, -1, 0) - g)
      d2 == Put(d1, com, Get(d1, com, 0) + g)
  IN [status EXCEPT !.node2com = Put(status.node2com, node, com),
                    !.degrees = d2,
                    !.internals = Put(status.internals, com,
                                      Get(status.internals, com, 0) + weight + l),
                    !.com2size = Put(status.com2size, com,
                                     status.com2size[com] + status.node2size[node])]

\* __neighcom(node, graph, status, weight_key)
Neighcom(node, graph, status) ==
  LET nb == Adj(graph, node) \ {node}
  IN AddAll(EmptyDict, nb, [m \in nb |-> status.node2com[m]],
            [m \in nb |-> graph.w[EdgeKey(node, m)]])

\* ------------------------------------------------ exact numbers in eps
\* [a, b, c] stands for a + b*eps + c*eps^2, eps = 1/EpsDen
P(a, b, c) == [a |-> a, b |-> b, c |-> c]
PInt(n) == P(n, 0, 0)
PAdd(x, y) == P(x.a + y.a, x.b + y.b, x.c + y.c)
PSub(x, y) == P(x.a - y.a, x.b - y.b, x.c - y.c)
PScale(k, x) == P(k * x.a, k * x.b, k * x.c)
\* (p0 + p1*eps) * (a + b*eps), for x.c = 0
PMulPar(par, x) == P(par.p0 * x.a, par.p0 * x.b + par.p1 * x.a, par.p1 * x.b)

\* a + b/K + c/K^2 > 0 with K = EpsDen, evaluated without large products
PPos(x) == x.a > ((((0 - x.c) \div EpsDen) - x.b) \div EpsDen)
\* x > y
PGt(x, y) == PPos(PSub(x, y))

\* x - y <= 0: the test without the threshold __MIN
DiffNotPos(x, y) ==
  ~PPos(PSub(PScale(y.den, x.num), PScale(x.den, y.num)))

\* A value num/den with num a number in eps and den a positive integer
\* x - y < __MIN
DiffLtMin(x, y) ==
  LET d == PSub(PScale(y.den, x.num), PScale(x.den, y.num))
      dd == x.den * y.den
  IN PPos(PSub(P(0, dd, 0), d))

\* ---------------------------------------------------------- objectives
\* __get_safe_par(model, pars) for 'dcppm' and 'ppm': (p0 + p1*eps) / den.
\* pars is None (default 1 - __MIN) or {'gamma': n/d} (max(gamma, __MIN)).
GetSafePar(model, pars) ==
  IF ~pars.some THEN [p0 |-> 1, p1 |-> -1, den |-> 1]
  ELSE IF pars.gamma.n * EpsDen < pars.gamma.d
       THEN [p0 |-> 0, p1 |-> 1, den |-> 1]
       ELSE [p0 |-> pars.gamma.n, p1 |-> 0, den |-> pars.gamma.d]

\* __get_es: E, Ein
GetEin(status) ==
  LET coms == Range(status.node2com)
  IN SumOver(coms, [c \in coms |-> Get(status.internals, c, 0)])

\* __get_SUMDC2_P2in: VC, P2in, and the KeyError of status.rawnode2degree[n]
GetP2in(status) ==
  LET raws == DOMAIN status.rawnode2node
      VC == AddAll(EmptyDict, raws,
                   [r \in raws |-> status.node2com[status.rawnode2node[r]]],
                   [r \in raws |-> 1])
  IN [ok |-> raws \subseteq DOMAIN status.rawnode2degree,
      P2in |-> SumOver(DOMAIN VC, [c \in DOMAIN VC |-> (VC[c] * (VC[c] - 1)) \div 2])]

\* P2 = len(rawnode2node) * (len(rawnode2node) - 1) / 2
GetP2(status) ==
  LET n == Cardinality(DOMAIN status.rawnode2node) IN (n * (n - 1)) \div 2

\* __modularity for 'dcppm': sum_c I_c/E - par*(D_c/2E)^2, as num / (4 E^2 par.den)
ModularityDcppm(status, par) ==
  LET E == status.total_weight
      coms == Range(status.node2com)
      term == [c \in coms |->
                 LET D == Get(status.degrees, c, 0)
                 IN PSub(PInt(4 * E * par.den * Get(status.internals, c, 0)),
                         PMulPar(par, PInt(D * D)))]
      as == SumOver(coms, [c \in coms |-> term[c].a])
      bs == SumOver(coms, [c \in coms |-> term[c].b])
  IN IF E > 0 THEN [err |-> "", num |-> P(as, bs, 0), den |-> 4 * E * E * par.den]
     ELSE [err |-> "", num |-> PInt(0), den |-> 1]

\* __modularity for 'ppm': (Ein - par*max(P2in, __MIN)*E/P2)/E, as num / (E P2 par.den)
ModularityPpm(status, par) ==
  LET E == status.total_weight
      Ein == GetEin(status)
      pp == GetP2in(status)
      P2 == GetP2(status)
      P2inC == IF pp.P2in > 0 THEN PInt(pp.P2in) ELSE P(0, 1, 0)
  IN IF ~pp.ok THEN [err |-> "KeyError", num |-> PInt(0), den |-> 1]
     ELSE IF P2 = 0 \/ E = 0
          THEN [err |-> "ZeroDivisionError", num |-> PInt(0), den |-> 1]
          ELSE [err |-> "",
                num |-> PSub(PInt(Ein * P2 * par.den), PScale(E, PMulPar(par, P2inC))),
                den |-> E * P2 * par.den]

\* __modularity(status, model, pars)
Modularity(status, model, pars) ==
  IF model = "dcppm" THEN ModularityDcppm(status, GetSafePar(model, pars))
  ELSE ModularityPpm(status, GetSafePar(model, pars))

\* remove_cost of __one_level (lines 495-520), before __remove;
\* scaled by 2 E par.den ('dcppm') or E P2 par.den ('ppm')
RemoveCost(node, com_node, v_in_degree, status, model, par) ==
  IF model = "dcppm"
  THEN LET com_degree == Get(status.degrees, com_node, 0)
           v_degree == Get(status.gdegrees, node, 0)
       IN PSub(PMulPar(par, PInt(v_degree * (com_degree - v_degree))),
               PInt(v_in_degree * 2 * status.total_weight * par.den))
  ELSE LET volume_node == status.node2size[node]
           volume_cluster == status.com2size[com_node] - volume_node
       IN PSub(PMulPar(par, PInt(volume_node * volume_cluster * status.total_weight)),
               PInt(v_in_degree * GetP2(status) * par.den))

\* add_cost of __one_level (lines 529-546), after __remove; same scale
AddCost(node, com, dnc, status, model, par) ==
  IF model = "dcppm"
  THEN LET com_degree == Get(status.degrees, com, 0)
           v_degree == Get(status.gdegrees, node, 0)
       IN PSub(PInt(dnc * 2 * status.total_weight * par.den),
               PMulPar(par, PInt(v_degree * com_degree)))
  ELSE LET volume_node == status.node2size[node]
           volume_cluster == status.com2size[com]
       IN PSub(PInt(dnc * GetP2(status) * par.den),
               PMulPar(par, PInt(volume_node * volume_cluster * status.total_weight)))

\* the loop that records best_increase but never best_com: the node stays
ScanBestKeep(coms, i, best_com, best_increase, node, neigh, rc, status, model, par) ==
  best_com

\* The loop over neigh_communities.items() (lines 524-552): coms is the order
\* of iteration, i the position, best_com / best_increase the running best
RECURSIVE ScanBest(_, _, _, _, _, _, _, _, _, _)
ScanBest(coms, i, best_com, best_increase, node, neigh, rc, status, model, par) ==
  IF i > Len(coms) THEN best_com
  ELSE LET com == coms[i]
           incr == PAdd(AddCost(node, com, neigh[com], status, model, par), rc)
       IN IF PGt(incr, best_increase)
          THEN ScanBest(coms, i + 1, com, incr, node, neigh, rc, status, model, par)
          ELSE ScanBest(coms, i + 1, best_com, best_increase, node, neigh, rc,
                        status, model, par)

\* Iteration order of a dict / node list of small integers: 0, 1, 2, ... and
\* -1 last (CPython 2 hash order); any order with randomize
KeyBefore(x, y) == IF x < 0 THEN FALSE ELSE IF y < 0 THEN TRUE ELSE x < y

Orders(S, randomize) ==
  {o \in [1..Cardinality(S) -> S] :
     /\ \A i, j \in DOMAIN o : i # j => o[i] # o[j]
     /\ randomize \/ \A i, j \in DOMAIN o : i < j => KeyBefore(o[i], o[j])}

\* __renumber(dictionary): the loop over dictionary.keys(), keys in iteration
\* order; new_values.get(value, -1) == -1 decides whether value is new
RECURSIVE RenumberScan(_, _, _, _, _, _)
RenumberScan(dictionary, keys, i, count, new_values, ret) ==
  IF i > Len(keys) THEN ret
  ELSE LET key == keys[i]
           value == dictionary[key]
           new_value == Get(new_values, value, -1)
       IN IF new_value = -1
          THEN RenumberScan(dictionary, keys, i + 1, count + 1,
                            Put(new_values, value, count), Put(ret, key, count))
          ELSE RenumberScan(dictionary, keys, i + 1, count, new_values,
                            Put(ret, key, new_value))

Renumber(dictionary) ==
  LET keys == CHOOSE o \in Orders(DOMAIN dictionary, FALSE) : TRUE
  IN RenumberScan(dictionary, keys, 1, 0, EmptyDict, dictionary)

\* __transit(partition, rawnodepart)
Transit(partition, rawnodepart) ==
  [n \in DOMAIN rawnodepart |-> partition[rawnodepart[n]]]

\* induced_graph that adds the keys of the partition as nodes
InducedGraphKeys(partition, graph) ==
  LET edges == DOMAIN graph.w
      key == [e \in edges |-> EdgeKey(partition[e[1]], partition[e[2]])]
  IN [nodes |-> (DOMAIN partition) \cup {key[e][1] : e \in edges}
                                   \cup {key[e][2] : e \in edges},
      w |-> AddAll([e \in {} |-> 0], edges, key, graph.w)]

\* induced_graph that sets the weight of an edge instead of adding to w_prec
InducedGraphOverwrite(partition, graph) ==
  LET edges == DOMAIN graph.w
      key == [e \in edges |-> EdgeKey(partition[e[1]], partition[e[2]])]
      keys == {key[e] : e \in edges}
  IN [nodes |-> Range(partition) \cup {k[1] : k \in keys} \cup {k[2] : k \in keys},
      w |-> [k \in keys |-> graph.w[CHOOSE e \in edges : key[e] = k]]]

\* induced_graph(partition, graph, weight): add_nodes_from(partition.values()),
\* then for every edge add_edge(com1, com2, weight = w_prec + edge_weight)
InducedGraph(partition, graph) ==
  LET edges == DOMAIN graph.w
      key == [e \in edges |-> EdgeKey(partition[e[1]], partition[e[2]])]
  IN [nodes |-> Range(partition) \cup {key[e][1] : e \in edges}
                                  \cup {key[e][2] : e \in edges},
      w |-> AddAll([e \in {} |-> 0], edges, key, graph.w)]

\* the loop "for index in range(1, level)": one level short
RECURSIVE LiftFromShort(_, _, _, _)
LiftFromShort(dendrogram, partition, index, level) ==
  IF index >= level THEN [err |-> "", val |-> partition]
  ELSE IF index + 1 > Len(dendrogram) THEN [err |-> "IndexError", val |-> partition]
  ELSE IF \E n \in DOMAIN partition : partition[n] \notin DOMAIN dendrogram[index + 1]
       THEN [err |-> "KeyError", val |-> partition]
       ELSE LiftFromShort(dendrogram,
                          [n \in DOMAIN partition |-> dendrogram[index + 1][partition[n]]],
                          index + 1, level)

\* partition_at_level(dendrogram, level): the loop "for index in range(1, level + 1)"
\* from position index on; dendrogram[index] of the program is dendrogram[index + 1] here
RECURSIVE LiftFrom(_, _, _, _)
LiftFrom(dendrogram, partition, index, level) ==
  IF index > level THEN [err |-> "", val |-> partition]
  ELSE IF index + 1 > Len(dendrogram) THEN [err |-> "IndexError", val |-> partition]
  ELSE IF \E n \in DOMAIN partition : partition[n] \notin DOMAIN dendrogram[index + 1]
       THEN [err |-> "KeyError", val |-> partition]
       ELSE LiftFrom(dendrogram,
                     [n \in DOMAIN partition |-> dendrogram[index + 1][partition[n]]],
                     index + 1, level)

PartitionAtLevel(dendrogram, level) ==
  IF Len(dendrogram) = 0 THEN [err |-> "IndexError", val |-> EmptyDict]
  ELSE LiftFrom(dendrogram, dendrogram[1], 1, level)

\* the edgeless partition numbered 0, 1, 2, ...
TrivialPartitionRank(g) == [n \in g.nodes |-> Rank(g.nodes, n)]

\* generate_dendrogram, lines 299-301: the partition of a graph without edges
TrivialPartition(g) == [n \in g.nodes |-> n]

\* ------------------------------------------------------------ the state
VARIABLES
  graph, part_init, model, pars, randomize,     \* arguments of generate_dendrogram
  pc, err,                                      \* position, exception raised
  current_graph, status, status_list, mod,      \* locals of generate_dendrogram
  modified, nb_pass_done, cur_mod, new_mod,     \* locals of __one_level
  todo, node, com_node, neigh_communities, remove_cost,
  entry_mod,                                    \* history: objective at entry of __one_level
  call, ret                                     \* a call of a partition utility and its result

args == <<graph, part_init, model, pars, randomize>>
driver == <<current_graph, status_list, mod>>
sweep == <<modified, nb_pass_done, cur_mod, new_mod>>
move == <<node, com_node, neigh_communities, remove_cost>>
util == <<call, ret>>
vars == <<args, pc, err, driver, status, sweep, todo, move, entry_mod, util>>

\* ----------------------------------------------------------- the inputs
Pairs(n) == {e \in (1..n) \X (1..n) : e[1] <= e[2]}

Graphs ==
  UNION {UNION {{[nodes |-> 1..n, w |-> f] :
                   f \in {h \in [E -> 1..MaxSize] : SumOver(E, h) <= MaxSize}} :
                  E \in {X \in SUBSET Pairs(n) : Cardinality(X) <= MaxSize}} :
           n \in 1..MaxNodes}

\* community labels of a caller's part_init
Labels == {-1, 0, 1}

Gammas == {[n |-> 1, d |-> 2], [n |-> 2, d |-> 1]}

ParsChoices == {[some |-> FALSE, gamma |-> [n |-> 1, d |-> 1]]}
                 \cup {[some |-> TRUE, gamma |-> g] : g \in Gammas}

NoValue == [err |-> "", num |-> PInt(0), den |-> 1]

NoCall == [op |-> "none"]

\* the locals before any statement has run
Locals ==
  /\ err = ""
  /\ current_graph = NoGraph
  /\ status = StatusNew
  /\ status_list = <<>>
  /\ mod = NoValue
  /\ modified = FALSE
  /\ nb_pass_done = 0
  /\ cur_mod = NoValue
  /\ new_mod = NoValue
  /\ todo = {}
  /\ node = 0
  /\ com_node = 0
  /\ neigh_communities = EmptyDict
  /\ remove_cost = PInt(0)
  /\ entry_mod = NoValue

Init ==
  /\ graph \in Graphs
  /\ part_init \in {None} \cup {Some(f) : f \in [graph.nodes -> Labels]}
  /\ model \in {"dcppm", "ppm"}
  /\ pars \in ParsChoices
  /\ randomize \in BOOLEAN
  /\ pc = "start"
  /\ Locals
  /\ call = NoCall
  /\ ret = NoCall

\* ---------------------------------------------------------- the actions
\* generate_dendrogram, lines 293-306: the edgeless case, else Status.init
Start ==
  /\ pc = "start"
  /\ IF NumberOfEdges(graph) = 0
     THEN /\ status_list' = <<TrivialPartition(graph)>>
          /\ pc' = "done"
          /\ UNCHANGED <<err, current_graph, status>>
     ELSE LET r == StatusInit(status, graph, part_init, None, None)
          IN /\ current_graph' = graph
             /\ status' = r.st
             /\ pc' = IF r.ok THEN "one_level" ELSE "raised"
             /\ err' = IF r.ok THEN "" ELSE "ValueError"
             /\ UNCHANGED status_list
  /\ UNCHANGED <<args, mod, sweep, todo, move, entry_mod, util>>

\* __one_level, lines 464-485
OneLevelEntry ==
  /\ pc = "one_level"
  /\ LET m == Modularity(status, model, pars)
     IN IF m.err # ""
        THEN /\ pc' = "raised"
             /\ err' = m.err
             /\ UNCHANGED <<sweep, entry_mod>>
        ELSE /\ pc' = "while"
             /\ modified' = TRUE
             /\ nb_pass_done' = 0
             /\ cur_mod' = m
             /\ new_mod' = m
             /\ entry_mod' = m
             /\ UNCHANGED err
  /\ UNCHANGED <<args, driver, status, todo, move, util>>

\* __one_level, lines 486-489: the loop test and the head of a pass
While ==
  /\ pc = "while"
  /\ IF modified /\ nb_pass_done # PASS_MAX
     THEN /\ cur_mod' = new_mod
          /\ modified' = FALSE
          /\ nb_pass_done' = nb_pass_done + 1
          /\ todo' = current_graph.nodes
          /\ pc' = "for"
          /\ UNCHANGED new_mod
     ELSE /\ pc' = "level_end"
          /\ UNCHANGED <<sweep, todo>>
  /\ UNCHANGED <<args, err, driver, status, move, entry_mod, util>>

\* __one_level, lines 490-522: the next node, its remove_cost and __remove
ForRemove ==
  /\ pc = "for"
  /\ \E o \in Orders(todo, randomize) :
       LET n == o[1]
           c == status.node2com[n]
           neigh == Neighcom(n, current_graph, status)
       IN /\ node' = n
          /\ com_node' = c
          /\ neigh_communities' = neigh
          /\ remove_cost' = RemoveCost(n, c, Get(neigh, c, 0), status, model,
                                       GetSafePar(model, pars))
          /\ status' = Remove(n, c, Get(neigh, c, 0), status)
          /\ todo' = todo \ {n}
  /\ pc' = "removed"
  /\ UNCHANGED <<args, err, driver, sweep, entry_mod, util>>

\* __one_level, lines 524-558: the best community and __insert
ForInsert ==
  /\ pc = "removed"
  /\ \E o \in Orders(DOMAIN neigh_communities, randomize) :
       LET best_com == ScanBest(o, 1, com_node, PInt(0), node, neigh_communities,
                                remove_cost, status, model, GetSafePar(model, pars))
       IN /\ status' = Insert(node, best_com, Get(neigh_communities, best_com, 0),
                              status)
          /\ modified' = (modified \/ best_com # com_node)
  /\ pc' = IF todo = {} THEN "pass_end" ELSE "for"
  /\ UNCHANGED <<args, err, driver, nb_pass_done, cur_mod, new_mod, todo, move,
                 entry_mod, util>>

\* the end of a pass that never leaves the loop on a small rise
PassEndNoBreak ==
  /\ pc = "pass_end"
  /\ IF modified
     THEN /\ new_mod' = Modularity(status, model, pars)
          /\ pc' = "while"
     ELSE /\ pc' = "while"
          /\ UNCHANGED new_mod
  /\ UNCHANGED <<args, err, driver, status, modified, nb_pass_done, cur_mod, todo,
                 move, entry_mod, util>>

\* __one_level, lines 559-562: the end of a pass
PassEnd ==
  /\ pc = "pass_end"
  /\ IF modified
     THEN LET m == Modularity(status, model, pars)
          IN /\ new_mod' = m
             /\ pc' = IF DiffLtMin(m, cur_mod) THEN "level_end" ELSE "while"
     ELSE /\ pc' = "while"
          /\ UNCHANGED new_mod
  /\ UNCHANGED <<args, err, driver, status, modified, nb_pass_done, cur_mod, todo,
                 move, entry_mod, util>>

\* generate_dendrogram, lines 309-315 and 319-327: after __one_level returned
LevelEnd ==
  /\ pc = "level_end"
  /\ LET m == Modularity(status, model, pars)
         partition == Renumber(status.node2com)
         g == InducedGraph(partition, current_graph)
         r == StatusInit(status, g, None,
                         Some(Transit(partition, status.rawnode2node)), Some(graph))
     IN IF status_list # <<>> /\ DiffLtMin(m, mod)
        THEN /\ pc' = "done"
             /\ UNCHANGED <<driver, status>>
        ELSE /\ status_list' = Append(status_list, partition)
             /\ mod' = m
             /\ current_graph' = g
             /\ status' = r.st
             /\ pc' = "one_level"
  /\ UNCHANGED <<args, err, sweep, todo, move, entry_mod, util>>

Next == Start \/ OneLevelEntry \/ While \/ ForRemove \/ ForInsert \/ PassEnd \/ LevelEnd

Spec == Init /\ [][Next]_vars

\* the positions at which generate_dendrogram has returned or raised
Final == {"done", "raised"}

\* a call that has not returned goes on to its next statement: weak fairness
\* of Next, written with the enabling condition of Next as the state predicate
\* it is (Next is enabled exactly at the positions that are not Final)
Fairness == []<>(pc \in Final) \/ []<><<Next>>_vars

SpecTerminates == Init /\ [][Next]_vars /\ Fairness

\* --------------------------------------------------- best_partition
\* best_partition, line 226: partition_at_level(dendo, len(dendo) - 1)
BestPartition(dendo) == PartitionAtLevel(dendo, Len(dendo) - 1)

\* modularity that adds every inner edge in full from both of its ends
modularityFull(partition, g) ==
  LET links == Size(g)
      nodes == g.nodes
      part == [n \in nodes |-> partition[n]]
      deg == AddAll(EmptyDict, nodes, part, [n \in nodes |-> Degree(g, n)])
      inc == AddAll(EmptyDict, nodes, part,
                    [n \in nodes |->
                       LET same == {m \in Adj(g, n) : partition[m] = partition[n]}
                       IN SumOver(same, [m \in same |-> g.w[EdgeKey(n, m)]])])
      coms == Range(partition)
  IN [err |-> "",
      num |-> SumOver(coms, [c \in coms |->
                4 * links * Get(inc, c, 0) - Get(deg, c, 0) * Get(deg, c, 0)]),
      den |-> 4 * links * links]

\* modularity(partition, graph, weight, gamma = 1.), lines 120-141, as
\* num / den with den = 4 * links^2; inc is accumulated in halves and
\* modelled doubled
modularity(partition, g) ==
  LET links == Size(g)
      nodes == g.nodes
      part == [n \in nodes |-> partition[n]]
      deg == AddAll(EmptyDict, nodes, part, [n \in nodes |-> Degree(g, n)])
      inc2 == AddAll(EmptyDict, nodes, part,
                     [n \in nodes |->
                        LET same == {m \in Adj(g, n) : partition[m] = partition[n]}
                        IN SumOver(same, [m \in same |->
                             IF m = n THEN 2 * g.w[EdgeKey(n, m)]
                             ELSE g.w[EdgeKey(n, m)]])])
      coms == Range(partition)
  IN IF links = 0 THEN [err |-> "ValueError", num |-> 0, den |-> 1]
     ELSE [err |-> "",
           num |-> SumOver(coms, [c \in coms |->
                     2 * links * Get(inc2, c, 0) - Get(deg, c, 0) * Get(deg, c, 0)]),
           den |-> 4 * links * links]

\* --- generate_dendrogram on the two worked examples: the complete
\* bipartite graph K_{3,3} and two disjoint triangles, unit weights
K33 ==
  [nodes |-> 0..5,
   w |-> [e \in {0, 1, 2} \X {3, 4, 5} |-> 1]]

TwoTriangles ==
  [nodes |-> 0..5,
   w |-> [e \in {<<0, 1>>, <<0, 2>>, <<1, 2>>, <<3, 4>>, <<3, 5>>, <<4, 5>>} |-> 1]]

\* pars = {'gamma': 1.}
GammaOne == [some |-> TRUE, gamma |-> [n |-> 1, d |-> 1]]

InitExamples ==
  /\ graph \in {K33, TwoTriangles}
  /\ part_init = None
  /\ model \in {"dcppm", "ppm"}
  /\ pars \in {[some |-> FALSE, gamma |-> [n |-> 1, d |-> 1]], GammaOne}
  /\ randomize = FALSE
  /\ pc = "start"
  /\ Locals
  /\ call = NoCall
  /\ ret = NoCall

SpecExamples == InitExamples /\ [][Next]_vars

\* --- the public entry points called with a model name, known or not.
\* An unknown name takes the final "else" of __one_level and __modularity,
\* the branch of 'ppm'; with pars None __get_safe_par does not look at it.
ModelNames == {"dcppm", "ppm", "ilfr", "ilfrs"}

\* graphs of at most two vertices
SmallGraphs == {g \in Graphs : Cardinality(g.nodes) <= 2}

\* pc = "entry": best_partition was called; pc = "start": generate_dendrogram
\* was called directly
InitModelName ==
  /\ graph \in SmallGraphs
  /\ part_init = None
  /\ model \in {"dcppm", "ppm", "louvain"}
  /\ pars = [some |-> FALSE, gamma |-> [n |-> 1, d |-> 1]]
  /\ randomize = FALSE
  /\ pc \in {"entry", "start"}
  /\ Locals
  /\ call = NoCall
  /\ ret = NoCall

\* best_partition, line 146: the assert on the model name, then the call of
\* generate_dendrogram
BestPartitionEntry ==
  /\ pc = "entry"
  /\ IF model \in ModelNames
     THEN pc' = "start" /\ UNCHANGED err
     ELSE pc' = "raised" /\ err' = "AssertionError"
  /\ UNCHANGED <<args, driver, status, sweep, todo, move, entry_mod, util>>

NextModelName == BestPartitionEntry \/ Next

SpecModelName == InitModelName /\ [][NextModelName]_vars

\* ------------------------------------------------ the partition utilities
\* compare_partitions(p1, p2): the blocks of a partition
Blocks(p) == {{v \in DOMAIN p : p[v] = c} : c \in Range(p)}

\* compare_partitions(p1, p2), lines 850-875: cross_tab and the two ratios
\* 'rand' and 'jaccard', each as numerator n and denominator d
ComparePartitions(p1, p2) ==
  LET prs == Blocks(p1) \X Blocks(p2)
      common == [q \in prs |-> Cardinality(q[1] \cap q[2])]
      l1 == [q \in prs |-> Cardinality(q[1]) - common[q]]
      l2 == [q \in prs |-> Cardinality(q[2]) - common[q]]
      a00 == SumOver(prs, [q \in prs |-> common[q] * common[q]])
      a10 == SumOver(prs, [q \in prs |-> common[q] * l2[q]])
      a01 == SumOver(prs, [q \in prs |-> l1[q] * common[q]])
      a11 == SumOver(prs, [q \in prs |-> l1[q] * l2[q]])
  IN [rand |-> [n |-> a00 + a11, d |-> a00 + a01 + a10 + a11],
      jaccard |-> [n |-> a00, d |-> a01 + a10 + a00]]

\* the main program's variables while a utility is called on its own
Idle ==
  /\ graph = NoGraph
  /\ part_init = None
  /\ model = "dcppm"
  /\ pars = [some |-> FALSE, gamma |-> [n |-> 1, d |-> 1]]
  /\ randomize = FALSE
  /\ pc = "idle"
  /\ Locals

main == <<args, pc, err, driver, status, sweep, todo, move, entry_mod>>

\* --- partition_at_level on well-formed dendrograms
\* dendrograms have at most MaxLevels levels over the labels 0..MaxLabel
MaxLevels == 3
MaxLabel == 1

Keys == {"a", "b", "c"}

\* the dendrograms d extended by one level whose keys are the values of the
\* last level
ExtendOne(d) == {Append(d, f) : f \in [Range(d[Len(d)]) -> 0..MaxLabel]}

RECURSIVE DendrogramsOfLen(_)
DendrogramsOfLen(k) ==
  IF k = 1 THEN {<<f>> : f \in [Keys -> 0..MaxLabel]}
  ELSE UNION {ExtendOne(d) : d \in DendrogramsOfLen(k - 1)}

InitLift ==
  /\ Idle
  /\ \E k \in 1..MaxLevels : \E d \in DendrogramsOfLen(k) : \E l \in 0..(k - 1) :
       call = [op |-> "partition_at_level", dendrogram |-> d, level |-> l]
  /\ ret = NoCall

CallPartitionAtLevel ==
  /\ call.op = "partition_at_level"
  /\ ret.op = "none"
  /\ ret' = [op |-> call.op, res |-> PartitionAtLevel(call.dendrogram, call.level)]
  /\ UNCHANGED <<main, call>>

SpecLift == InitLift /\ [][CallPartitionAtLevel]_vars

\* --- induced_graph on every input graph, the graph of the example, and
\* every partition of the vertices
ExampleGraph ==
  [nodes |-> 0..3,
   w |-> (<<0, 1>> :> 1 @@ <<1, 2>> :> 1 @@ <<2, 3>> :> 1 @@ <<0, 2>> :> 1)]

InitInduced ==
  /\ Idle
  /\ \E g \in Graphs \cup {ExampleGraph} : \E f \in [g.nodes -> Labels] :
       call = [op |-> "induced_graph", partition |-> f, graph |-> g]
  /\ ret = NoCall

CallInducedGraph ==
  /\ call.op = "induced_graph"
  /\ ret.op = "none"
  /\ ret' = [op |-> call.op, res |-> InducedGraph(call.partition, call.graph)]
  /\ UNCHANGED <<main, call>>

SpecInduced == InitInduced /\ [][CallInducedGraph]_vars

\* --- compare_partitions on two partitions of the same vertices
Vertices == {"a", "b", "c", "d"}

InitCompare ==
  /\ Idle
  /\ \E f1 \in [Vertices -> 0..MaxLabel] : \E f2 \in [Vertices -> 0..MaxLabel] :
       call = [op |-> "compare_partitions", p1 |-> f1, p2 |-> f2]
  /\ ret = NoCall

CallComparePartitions ==
  /\ call.op = "compare_partitions"
  /\ ret.op = "none"
  /\ ret' = [op |-> call.op, res |-> ComparePartitions(call.p1, call.p2)]
  /\ UNCHANGED <<main, call>>

SpecCompare == InitCompare /\ [][CallComparePartitions]_vars

\* --- Status.init on graphs whose edge weights may be zero or negative,
\* with the default partition and with a caller's partition
SignedGraphs ==
  UNION {{[nodes |-> 1..n, w |-> f] :
            f \in UNION {[X -> {-1, 0, 1, 2}] : X \in SUBSET Pairs(n)}} :
           n \in {1, 2}}

InitStatusInit ==
  /\ Idle
  /\ \E g \in SignedGraphs :
       \E p \in {None} \cup {Some(f) : f \in [g.nodes -> Labels]} :
         call = [op |-> "Status.init", graph |-> g, part |-> p]
  /\ ret = NoCall

CallStatusInit ==
  /\ call.op = "Status.init"
  /\ ret.op = "none"
  /\ ret' = [op |-> call.op,
             res |-> StatusInit(StatusNew, call.graph, call.part, None, None)]
  /\ UNCHANGED <<main, call>>

SpecStatusInit == InitStatusInit /\ [][CallStatusInit]_vars

\* --- estimate_mu when model is not 'ilfr' (lines 792-797): the number of
\* edges whose ends lie in different communities over graph.size(), the
\* number of edges; as numerator n and denominator d.  The branch of 'ilfr'
\* returns a log-likelihood and is not modelled.
EstimateMu(g, partition) ==
  [n |-> Cardinality({e \in DOMAIN g.w : partition[e[1]] # partition[e[2]]}),
   d |-> NumberOfEdges(g)]

InitEstimateMu ==
  /\ Idle
  /\ \E g \in {h \in Graphs : NumberOfEdges(h) > 0} :
       \E f \in [g.nodes -> Labels] : \E m \in {"None", "ilfrs"} :
         call = [op |-> "estimate_mu", graph |-> g, partition |-> f, model |-> m]
  /\ ret = NoCall

CallEstimateMu ==
  /\ call.op = "estimate_mu"
  /\ call.model # "ilfr"
  /\ ret.op = "none"
  /\ ret' = [op |-> call.op, res |-> EstimateMu(call.graph, call.partition)]
  /\ UNCHANGED <<main, call>>

SpecEstimateMu == InitEstimateMu /\ [][CallEstimateMu]_vars

\* ====================================================== the properties
\* Status holds an initialised partition and no vertex is parked in -1
Settled == pc \in {"one_level", "while", "for", "pass_end", "level_end", "raised"}
             \/ (pc = "done" /\ NumberOfEdges(graph) > 0)

\* the graph has a self-loop
HasLoop(g) == \E e \in DOMAIN g.w : e[1] = e[2]

\* the caller's part_init, if any, does not use the label -1
NoSentinelLabel ==
  part_init.some => \A n \in DOMAIN part_init.val : part_init.val[n] >= 0

\* weight of the edges of g with both endpoints in community c of n2c
InnerWeight(g, n2c, c) ==
  LET in == {e \in DOMAIN g.w : n2c[e[1]] = c /\ n2c[e[2]] = c}
  IN SumOver(in, [e \in in |-> g.w[e]])

\* weight of the edges of g whose endpoints lie in different communities
CrossWeight(g, n2c) ==
  LET x == {e \in DOMAIN g.w : n2c[e[1]] # n2c[e[2]]}
  IN SumOver(x, [e \in x |-> g.w[e]])

\* x - y > __MIN
DiffGtMin(x, y) ==
  LET d == PSub(PScale(y.den, x.num), PScale(x.den, y.num))
      dd == x.den * y.den
  IN PPos(PSub(d, P(0, dd, 0)))

\* the full objective of the partition n2c of current_graph: __modularity of
\* a Status initialised with it
ObjectiveOf(n2c) ==
  Modularity(StatusInit(StatusNew, current_graph, Some(n2c),
                        Some(status.rawnode2node), Some(graph)).st, model, pars)

\* a community label not in use
FreshCom(n2c) == 1 + CHOOSE m \in Range(n2c) : \A c \in Range(n2c) : c <= m

\* moving vertex v to community c raises the full objective by more than __MIN
Improves(n2c, v, c) == DiffGtMin(ObjectiveOf(Put(n2c, v, c)), ObjectiveOf(n2c))

\* the gain add_cost + remove_cost that __one_level computes for moving v to c
Gain(v, c) ==
  LET neigh == Neighcom(v, current_graph, status)
      com == status.node2com[v]
      par == GetSafePar(model, pars)
      rc == RemoveCost(v, com, Get(neigh, com, 0), status, model, par)
      st == Remove(v, com, Get(neigh, com, 0), status)
  IN PAdd(AddCost(v, c, neigh[c], st, model, par), rc)

C2_NoDecrease ==
  (pc = "level_end" /\ NoSentinelLabel) =>
    ~DiffGtMin(entry_mod, Modularity(status, model, pars))

\* C3: the degrees of all communities, the sentinel -1 included, add up to
\* 2 * total_weight after Status.init, after every __remove, after every
\* __insert and after every sweep, at every level
C3_DegreesSum ==
  SumOver(DOMAIN status.degrees, status.degrees) = 2 * status.total_weight

\* C3 witness: a vertex with a self-loop is parked in -1 by __remove at a
\* level above the first
C3_Witness ==
  /\ pc = "removed"
  /\ status_list # <<>>
  /\ Get(status.loops, node, 0) > 0
  /\ status.degrees[-1] > 0
  /\ C3_DegreesSum

\* C4 as stated: with no vertex in transit, internals[c] of every live
\* community is the weight of the edges inside c (a self-loop once in full),
\* hence the internals of the live communities add up to total_weight minus
\* the cross weight (here for initial partitions with non-negative labels)
C4_InternalsExact ==
  (Settled /\ NoSentinelLabel) =>
    /\ \A c \in Range(status.node2com) :
         Get(status.internals, c, 0) = InnerWeight(current_graph, status.node2com, c)
    /\ GetEin(status) = status.total_weight - CrossWeight(current_graph, status.node2com)

\* C5: com2size counts the original vertices of each community, node2size
\* those of each current vertex, and com2size adds up to the number of
\* original vertices
C5_Sizes ==
  Settled =>
    LET r2n == status.rawnode2node
    IN /\ DOMAIN r2n = graph.nodes
       /\ \A c \in DOMAIN status.com2size :
            status.com2size[c] =
              Cardinality({r \in graph.nodes : status.node2com[r2n[r]] = c})
       /\ Range(status.node2com) \subseteq DOMAIN status.com2size
       /\ \A n \in current_graph.nodes :
            Get(status.node2size, n, 0) = Cardinality({r \in graph.nodes : r2n[r] = n})
       /\ SumOver(DOMAIN status.com2size, status.com2size) = Cardinality(graph.nodes)

\* C5 witness: at a level above the first a super-node of two original
\* vertices has been moved into another community
C5_Witness ==
  /\ pc = "for"
  /\ status_list # <<>>
  /\ modified
  /\ \E n \in current_graph.nodes : status.node2size[n] >= 2
  /\ \E c \in DOMAIN status.com2size : status.com2size[c] = 0
  /\ C5_Sizes

\* C6: the first partition of the dendrogram is defined on the vertices of
\* the input graph, the keys of every further partition are the values of the
\* one before (as are the vertices of the contracted graph while a level is
\* worked on), and partition_at_level raises no error at any level
C6_Dendrogram ==
  status_list # <<>> =>
    /\ DOMAIN status_list[1] = graph.nodes
    /\ \A i \in 1..(Len(status_list) - 1) :
         DOMAIN status_list[i + 1] = Range(status_list[i])
    /\ pc # "done" =>
         /\ current_graph.nodes = Range(status_list[Len(status_list)])
         /\ Settled => DOMAIN status.node2com = current_graph.nodes
    /\ pc = "done" =>
         \A l \in 0..(Len(status_list) - 1) : PartitionAtLevel(status_list, l).err = ""

\* C6 witness: a dendrogram of two levels is returned
C6_Witness ==
  /\ pc = "done"
  /\ Len(status_list) >= 2
  /\ Range(status_list[1]) # Range(status_list[2])

\* C9: on a graph without edges generate_dendrogram initialises no Status,
\* runs no pass, and returns the one partition that maps every vertex to itself
C9_Edgeless ==
  NumberOfEdges(graph) = 0 =>
    /\ pc \in {"start", "done"}
    /\ status = StatusNew
    /\ nb_pass_done = 0
    /\ pc = "done" => status_list = <<[n \in graph.nodes |-> n]>>

\* C9 witness: the call returns for an edgeless graph of several vertices and
\* a caller's part_init
C9_Witness ==
  /\ pc = "done"
  /\ NumberOfEdges(graph) = 0
  /\ Cardinality(graph.nodes) >= 2
  /\ part_init.some
  /\ Len(status_list) = 1

\* the composition of the levels 0..l of dendrogram d at key v
RECURSIVE Composed(_, _, _)
Composed(d, l, v) == IF l = 0 THEN d[1][v] ELSE d[l + 1][Composed(d, l - 1, v)]

ExampleDendrogram ==
  <<("a" :> 0 @@ "b" :> 0 @@ "c" :> 1), (0 :> 0 @@ 1 :> 0)>>

\* C7: partition_at_level(D, L) maps every key of D[0] to the composition of
\* the levels 0..L, level 0 gives D[0] itself, and the example
\* [{a:0,b:0,c:1},{0:0,1:0}] at level 1 gives {a:0,b:0,c:0}
C7_Lift ==
  ret.op = "partition_at_level" =>
    LET d == call.dendrogram IN
    /\ ret.res.err = ""
    /\ DOMAIN ret.res.val = DOMAIN d[1]
    /\ \A v \in DOMAIN d[1] : ret.res.val[v] = Composed(d, call.level, v)
    /\ call.level = 0 => ret.res.val = d[1]
    /\ (d = ExampleDendrogram /\ call.level = 1) =>
         ret.res.val = ("a" :> 0 @@ "b" :> 0 @@ "c" :> 0)

\* C7 witness: the example has been lifted to level 1
C7_Witness ==
  /\ ret.op = "partition_at_level"
  /\ call.dendrogram = ExampleDendrogram
  /\ call.level = 1
  /\ ret.res.val = ("a" :> 0 @@ "b" :> 0 @@ "c" :> 0)

\* the edges of g that partition p maps onto the pair {a, b}
EdgesOnto(g, p, a, b) ==
  {e \in DOMAIN g.w : {p[e[1]], p[e[2]]} = {a, b}}

\* C8: induced_graph(P, G) has the values of P as vertices, the weight of its
\* edge (a, b) is the sum of the weights of the edges of G that P maps onto
\* {a, b}, there is no edge where no edge of G is mapped, and the total weight
\* is that of G; on the example it has self-loops of weight 1 and a cross
\* edge of weight 2
C8_Induced ==
  ret.op = "induced_graph" =>
    LET g == call.graph
        p == call.partition
        r == ret.res
    IN /\ r.nodes = Range(p)
       /\ DOMAIN r.w \subseteq {e \in r.nodes \X r.nodes : e[1] <= e[2]}
       /\ \A a, b \in r.nodes :
            a <= b =>
              LET on == EdgesOnto(g, p, a, b)
              IN IF on = {} THEN <<a, b>> \notin DOMAIN r.w
                 ELSE /\ <<a, b>> \in DOMAIN r.w
                      /\ r.w[<<a, b>>] = SumOver(on, [e \in on |-> g.w[e]])
       /\ Size(r) = Size(g)
       /\ (g = ExampleGraph /\ p = (0 :> 0 @@ 1 :> 0 @@ 2 :> 1 @@ 3 :> 1)) =>
            r = [nodes |-> {0, 1},
                 w |-> (<<0, 0>> :> 1 @@ <<1, 1>> :> 1 @@ <<0, 1>> :> 2)]

\* C8 witness: the example graph has been contracted
C8_Witness ==
  /\ ret.op = "induced_graph"
  /\ call.graph = ExampleGraph
  /\ call.partition = (0 :> 0 @@ 1 :> 0 @@ 2 :> 1 @@ 3 :> 1)
  /\ ret.res.w[<<0, 1>>] = 2

\* the pairs of distinct vertices
VertexPairs(p) == {q \in SUBSET (DOMAIN p) : Cardinality(q) = 2}

\* the two vertices of pair q are in the same block of p
Together(p, q) == \A u, v \in q : p[u] = p[v]

\* C10 as stated: rand = (a00 + a11)/(a00 + a01 + a10 + a11) and
\* jaccard = a00/(a00 + a01 + a10) with a00, a01, a10, a11 the numbers of
\* pairs of distinct vertices together in both partitions, in the first
\* only, in the second only, and in neither (where the ratio is defined);
\* the example gives Rand = 1/3 and Jaccard = 0
C10_RandJaccard ==
  ret.op = "compare_partitions" =>
    LET p1 == call.p1
        p2 == call.p2
        prs == VertexPairs(p1)
        a00 == Cardinality({q \in prs : Together(p1, q) /\ Together(p2, q)})
        a01 == Cardinality({q \in prs : Together(p1, q) /\ ~Together(p2, q)})
        a10 == Cardinality({q \in prs : ~Together(p1, q) /\ Together(p2, q)})
        a11 == Cardinality({q \in prs : ~Together(p1, q) /\ ~Together(p2, q)})
        r == ret.res
    IN /\ r.rand.n * (a00 + a01 + a10 + a11) = (a00 + a11) * r.rand.d
       /\ (a00 + a01 + a10 > 0) => r.jaccard.n * (a00 + a01 + a10) = a00 * r.jaccard.d
       /\ (/\ p1 = ("a" :> 0 @@ "b" :> 0 @@ "c" :> 1 @@ "d" :> 1)
           /\ p2 = ("a" :> 0 @@ "b" :> 1 @@ "c" :> 0 @@ "d" :> 1)) =>
            /\ 3 * r.rand.n = r.rand.d
            /\ r.jaccard.n = 0

\* the communities of a partition as sets of vertices
Communities(p) == {{v \in DOMAIN p : p[v] = c} : c \in Range(p)}

\* the call on K_{3,3} has returned: 'dcppm' with the default parameter, or
\* 'ppm' with gamma = 1
K33Done ==
  /\ pc = "done"
  /\ graph = K33
  /\ (model = "dcppm" /\ ~pars.some) \/ (model = "ppm" /\ pars = GammaOne)

\* C11 as stated: on K_{3,3} best_partition returns a single community with
\* model 'dcppm' and with model 'ppm' and gamma = 1
C11_K33Single ==
  K33Done => Cardinality(Range(BestPartition(status_list).val)) = 1

\* C11 amended: on K_{3,3} best_partition returns the three pairs {0,3},
\* {1,4}, {2,5} with model 'dcppm' and with model 'ppm' and gamma = 1
C11_K33Pairs ==
  K33Done =>
    /\ BestPartition(status_list).err = ""
    /\ Communities(BestPartition(status_list).val) = {{0, 3}, {1, 4}, {2, 5}}

\* C11 witness: the call with 'ppm' and gamma = 1 returns after a second
\* level was tried and not appended
C11_Witness ==
  /\ K33Done
  /\ model = "ppm"
  /\ Len(status_list) = 1
  /\ Cardinality(current_graph.nodes) = 3

\* C12: on two disjoint triangles best_partition with model 'dcppm' returns
\* the two triangles, and modularity of that partition is 1/2
C12_TwoTriangles ==
  (pc = "done" /\ graph = TwoTriangles /\ model = "dcppm" /\ ~pars.some) =>
    LET bp == BestPartition(status_list)
        q == modularity(bp.val, graph)
    IN /\ bp.err = ""
       /\ Communities(bp.val) = {{0, 1, 2}, {3, 4, 5}}
       /\ q.err = ""
       /\ 2 * q.num = q.den

\* C12 witness: the call on the two triangles has returned a dendrogram
C12_Witness ==
  /\ pc = "done"
  /\ graph = TwoTriangles
  /\ model = "dcppm"
  /\ ~pars.some
  /\ Len(status_list) >= 1
  /\ Cardinality(Range(BestPartition(status_list).val)) = 2

\* C13 as stated: Status.init raises an error for every graph that has an
\* edge of weight <= 0, with a caller's partition and with the default one
C13_RejectsBadWeight ==
  (ret.op = "Status.init" /\ \E e \in DOMAIN call.graph.w : call.graph.w[e] <= 0) =>
    ~ret.res.ok

\* C14 as stated: a call with a model name outside {ppm, dcppm, ilfr, ilfrs}
\* is rejected at entry: no Status is initialised, no level is computed and
\* no result is returned
C14_RejectsUnknownModel ==
  model \notin ModelNames =>
    /\ pc \in {"entry", "start", "raised"}
    /\ status = StatusNew
    /\ status_list = <<>>

\* C15 as stated: on a graph with at least one edge no division of
\* __one_level or __modularity has a zero denominator (no ZeroDivisionError
\* is raised), a graph of a single vertex included
C15_NoDomainError ==
  NumberOfEdges(graph) > 0 => err # "ZeroDivisionError"

\* C16 as stated: estimate_mu returns (E - E_in)/E, the share of the total
\* edge weight E that lies on edges between different communities
C16_CrossWeightShare ==
  ret.op = "estimate_mu" =>
    ret.res.n * Size(call.graph) = CrossWeight(call.graph, call.partition) * ret.res.d

\* C17 as stated: best_partition returns a mapping defined on the vertices
\* of the graph whose community labels are exactly 0, 1, ..., k-1, on graphs
\* without edges and with vertex labels other than 0..n-1 too
C17_Renumbered ==
  pc = "done" =>
    LET bp == BestPartition(status_list)
    IN /\ bp.err = ""
       /\ DOMAIN bp.val = graph.nodes
       /\ Range(bp.val) = 0..(Cardinality(Range(bp.val)) - 1)

\* the Status after __one_level has taken v out of its community and put it
\* into community c
MoveTo(v, c) ==
  LET neigh == Neighcom(v, current_graph, status)
      com == status.node2com[v]
  IN Insert(v, c, Get(neigh, c, 0), Remove(v, com, Get(neigh, com, 0), status))

\* change of the numerator of __modularity caused by moving v to c; the
\* denominator (4 E^2 for dcppm, E P2 for ppm, times that of par) is the same
\* before and after
ObjectiveChange(v, c) ==
  PSub(Modularity(MoveTo(v, c), model, pars).num,
       Modularity(status, model, pars).num)

\* C18 as stated: in __one_level, for every vertex v and every neighbouring
\* community c, the gain add_cost(c) + remove_cost(c_old) is the change of
\* __modularity caused by moving v to c times E (dcppm) or 1 (ppm); it is 0
\* for c = c_old and has the sign of the objective change
C18_GainIsObjectiveChange ==
  pc \in {"for", "pass_end", "while", "level_end"} =>
    \A v \in current_graph.nodes :
      \A c \in DOMAIN Neighcom(v, current_graph, status) :
        LET gain == Gain(v, c)
            change == ObjectiveChange(v, c)
        IN /\ (IF model = "dcppm" THEN PScale(2, gain) ELSE gain) = change
           /\ c = status.node2com[v] => gain = PInt(0)
           /\ PPos(gain) <=> PPos(change)
           /\ PPos(PSub(PInt(0), gain)) <=> PPos(PSub(PInt(0), change))

\* the Status after __remove(v, c, k) followed by __insert(v, c, k), c being
\* the community of v and k the weight of its edges into c
RemoveInsert(v) ==
  LET c == status.node2com[v]
      k == Get(Neighcom(v, current_graph, status), c, 0)
  IN Insert(v, c, k, Remove(v, c, k, status))

\* the dictionaries a and b hold the same value under every community label,
\* the sentinel -1 included, an absent entry being read as 0
SameValues(a, b) ==
  \A c \in DOMAIN a \cup DOMAIN b \cup {-1} : Get(a, c, 0) = Get(b, c, 0)

\* C19 as stated: __remove(v, c, k) followed by __insert(v, c, k) restores
\* node2com and the values of degrees, internals and com2size under every
\* community label, -1 included, and leaves the other fields of the Status
\* untouched
C19_InsertUndoesRemove ==
  pc = "for" =>
    \A v \in current_graph.nodes :
      LET after == RemoveInsert(v)
      IN /\ after.node2com = status.node2com
         /\ SameValues(after.degrees, status.degrees)
         /\ SameValues(after.internals, status.internals)
         /\ SameValues(after.com2size, status.com2size)
         /\ after.total_weight = status.total_weight
         /\ after.gdegrees = status.gdegrees
         /\ after.loops = status.loops
         /\ after.rawnode2node = status.rawnode2node
         /\ after.rawnode2degree = status.rawnode2degree
         /\ after.node2size = status.node2size

\* a further pass of __one_level starts only after a pass that moved a vertex
\* and after which __modularity, recomputed, was at least __MIN above its
\* value at the start of that pass
FurtherPass ==
  (pc = "while" /\ pc' = "for" /\ nb_pass_done >= 1) =>
    /\ modified
    /\ new_mod = Modularity(status, model, pars)
    /\ ~DiffLtMin(new_mod, cur_mod)

\* after the first level, generate_dendrogram appends a level only when
\* __modularity is at least __MIN above its value at the previous level
FurtherLevel ==
  (status_list # <<>> /\ Len(status_list') = Len(status_list) + 1) =>
    /\ pc = "level_end"
    /\ mod' = Modularity(status, model, pars)
    /\ ~DiffLtMin(mod', mod)

\* C20: with PASS_MAX = -1 generate_dendrogram returns or raises on every
\* graph, initial partition and model; a further pass starts only after a
\* pass that moved a vertex and raised the objective by at least __MIN, and
\* a further level is appended only when the objective rose by at least
\* __MIN over the previous level
C20_Terminates ==
  /\ <>(pc \in Final)
  /\ [][FurtherPass]_vars
  /\ [][FurtherLevel]_vars

\* generate_dendrogram, run with PASS_MAX = -1, has returned after its loop
\* appended a further level
C20_Witness ==
  /\ pc = "done"
  /\ PASS_MAX = -1
  /\ nb_pass_done >= 1
  /\ Len(status_list) >= 2

\* number of edge ends of g at vertex r, a self-loop counting twice
UnweightedDegree(g, r) ==
  LET edges == DOMAIN g.w
  IN SumOver(edges, [e \in edges |->
       (IF e[1] = r THEN 1 ELSE 0) + (IF e[2] = r THEN 1 ELSE 0)])

\* C21 as stated: after Status.init at any level, rawnode2degree has an entry
\* for every vertex of the original graph, equal to its unweighted degree
\* there (0 for a vertex without edge), and the ppm objective does not fail
\* on a missing entry
C21_RawDegreesDefined ==
  pc = "one_level" =>
    /\ \A r \in graph.nodes :
         /\ r \in DOMAIN status.rawnode2degree
         /\ status.rawnode2degree[r] = UnweightedDegree(graph, r)
    /\ model = "ppm" => Modularity(status, model, pars).err # "KeyError"

\* C22 as stated: whatever the labels of part_init, -1 included, when __remove
\* has parked a vertex v in the sentinel community -1 no other vertex has
\* node2com = -1, and degrees[-1] and internals[-1] are the degree and the
\* self-loop weight of v alone
C22_SentinelHoldsOnlyTransit ==
  pc = "removed" =>
    /\ status.node2com[node] = -1
    /\ \A n \in current_graph.nodes \ {node} : status.node2com[n] # -1
    /\ Get(status.degrees, -1, 0) = Degree(current_graph, node)
    /\ Get(status.internals, -1, 0) = EdgeWeight(current_graph, node, node)

\* a step of generate_dendrogram from the end of a level to the next level:
\* the Status is re-initialised over the contracted graph
LevelTransition == pc = "level_end" /\ pc' = "one_level"

\* the Status after the step carries, under the renumbered label of every
\* community of the finished level, the degrees, internals and com2size the
\* Status before the step has for that community, and the same total_weight
\* and objective value
Carried ==
  LET partition == Renumber(status.node2com)
  IN /\ status'.total_weight = status.total_weight
     /\ \A v \in current_graph.nodes :
          LET c == status.node2com[v]
              n == partition[v]
          IN /\ Get(status'.degrees, n, 0) = Get(status.degrees, c, 0)
             /\ Get(status'.internals, n, 0) = Get(status.internals, c, 0)
             /\ Get(status'.com2size, n, 0) = Get(status.com2size, c, 0)
     /\ Modularity(status', model, pars) = Modularity(status, model, pars)

\* C23 as stated: at every level transition of generate_dendrogram the
\* re-initialised Status keeps total_weight and, per community renumbered,
\* degrees, internals and com2size, hence the objective value
C23_ContractionKeepsStatus == [][LevelTransition => Carried]_vars

====
